---- MODULE Spec2Model ----
(***************************************************************************)
(* Model of lib-storage/mail-storage.c (storage-class registry, backend    *)
(* selection, per-storage error slot) and of                               *)
(* lib-storage/index/dbox-common/dbox-storage.c (dbox mailbox open and     *)
(* create).                                                                *)
(*                                                                         *)
(* The specifications share the variables:                                 *)
(*   Spec          processes running dbox_mailbox_create on one mailbox    *)
(*   SpecRegistry  register / unregister / create_* on the class registry  *)
(*   SpecError     the error setters on the storages' error slots          *)
(*   SpecOpen      dbox_mailbox_open on the processes' storages            *)
(*   SpecLive      one dbox_mailbox_create per process, fairly scheduled   *)
(***************************************************************************)
EXTENDS Integers, Sequences, FiniteSets, TLC

\* ---- bounds of the model ------------------------------------------------
NumProcs == 2
MaxUidValidity == 2
MaxTime == 1
MaxRegs == 2
MaxDataLen == 3
MaxAge == 3

\* Each process (connection) owns one struct mail_storage.
Procs == 1..NumProcs

\* ---- C strings -----------------------------------------------------------
\* A const char *: NULL, or a string given as a sequence of pieces.
NULL == [null |-> TRUE, s |-> <<>>]
Str(s) == [null |-> FALSE, s |-> s]

\* ---- mail-storage.c: ErrorState ---------------------------------------------
CRITICAL_MSG == "Internal error occured. Refer to server log for more information."
CRITICAL_MSG_LEN == 66
STAMP_LEN == 22
STR_SIZE == 256

\* Format strings of the callers and their one argument.
Fmts == { <<"stat(", "%s", ") failed">> }
FmtArgs == { "a", "b" }

\* i_strdup_vprintf(fmt, va): every %s is replaced by the argument.
i_strdup_vprintf(fmt, arg) ==
    [i \in DOMAIN fmt |-> IF fmt[i] = "%s" THEN arg ELSE fmt[i]]

\* strftime(str, sizeof(str), CRITICAL_MSG_STAMP, tm): the number of bytes
\* written, or 0 when the result does not fit in the buffer.
strftime_ret(size) ==
    IF CRITICAL_MSG_LEN + STAMP_LEN < size THEN CRITICAL_MSG_LEN + STAMP_LEN ELSE 0

\* The buffer after strftime: the message and " [<local time>]".
CRITICAL_MSG_STAMP(t) == <<CRITICAL_MSG, " [", ToString(t), "]">>

\* clear_error that frees the message and leaves the syntax flag.
mail_storage_clear_error_keeps_flag(st) == [st EXCEPT !.error = NULL]

mail_storage_clear_error(st) ==
    [error |-> NULL, syntax_error |-> FALSE]

mail_storage_set_error(st, fmt, arg) ==
    IF fmt = NULL
    THEN [st EXCEPT !.error = NULL]
    ELSE [error |-> Str(i_strdup_vprintf(fmt.s, arg)), syntax_error |-> FALSE]

mail_storage_set_syntax_error(st, fmt, arg) ==
    IF fmt = NULL
    THEN [st EXCEPT !.error = NULL]
    ELSE [error |-> Str(i_strdup_vprintf(fmt.s, arg)), syntax_error |-> TRUE]

mail_storage_set_internal_error(st, t) ==
    [error |-> IF strftime_ret(STR_SIZE) > 0
               THEN Str(CRITICAL_MSG_STAMP(t))
               ELSE Str(<<CRITICAL_MSG>>),
     syntax_error |-> FALSE]

\* set_critical that leaves the caller's detail in the client-visible slot.
mail_storage_set_critical_detail_visible(st, fmt, arg, t) ==
    IF fmt = NULL
    THEN [st |-> [st EXCEPT !.error = NULL], events |-> <<>>]
    ELSE LET detail == Str(i_strdup_vprintf(fmt.s, arg))
         IN  [st |-> [error |-> detail, syntax_error |-> FALSE],
              events |-> << [ev |-> "i_error", msg |-> detail],
                            [ev |-> "store", msg |-> detail] >>]

\* The storage after the call, and what the call did in order: i_error()
\* lines sent to the log, then stores to storage->error.
mail_storage_set_critical(st, fmt, arg, t) ==
    IF fmt = NULL
    THEN [st |-> [st EXCEPT !.error = NULL], events |-> <<>>]
    ELSE LET detail == Str(i_strdup_vprintf(fmt.s, arg))
             after == mail_storage_set_internal_error(st, t)
         IN  [st |-> after,
              events |-> << [ev |-> "i_error", msg |-> detail],
                            [ev |-> "store", msg |-> after.error] >>]

\* ---- mail-storage.c: the storage-class registry ----------------------------

\* The characters of names and data: two letters that differ in case only,
\* the colon and one character that is neither alphanumeric nor a colon.
Chars == {"a", "A", ":", "/"}

i_isalnum(c) == c \in {"a", "A"}

i_tolower(c) == IF c = "A" THEN "a" ELSE c

\* strcasecmp(s1, s2) == 0
strcasecmp_equal(s1, s2) ==
    /\ Len(s1) = Len(s2)
    /\ \A i \in 1..Len(s1) : i_tolower(s1[i]) = i_tolower(s2[i])

StringsUpTo(n) == UNION { [1..k -> Chars] : k \in 0..n }

\* The data argument of mail_storage_create_with_data.
AllData == {NULL} \cup { Str(d) : d \in StringsUpTo(MaxDataLen) }

\* The storage classes of the process (struct mail_storage descriptors) by
\* address, and the name of each. The first two differ in case only.
ClassName == << <<"a">>, <<"A">>, <<"a", "a">> >>
Classes == DOMAIN ClassName
NoClass == 0

\* The storage a backend's create returns: NoStorage is NULL.
Storage(c, data) == [cls |-> c, data |-> data]
NoStorage == Storage(NoClass, NULL)

\* One call made by a dispatch function: mail_storage_find, or a backend's
\* v.create or v.autodetect, with its argument and whether it succeeded.
Made(fn, c, data, ok) == [fn |-> fn, cls |-> c, data |-> data, ok |-> ok]

\* register that inserts at the head of the array.
class_register_prepends(classes, c) == <<c>> \o classes

\* array_append(&storages, &storage_class, 1)
mail_storage_class_register(classes, c) == Append(classes, c)

RECURSIVE index_of(_, _, _)
index_of(classes, c, i) ==
    IF i > Len(classes) THEN 0
    ELSE IF classes[i] = c THEN i
    ELSE index_of(classes, c, i + 1)

\* array_delete(&storages, i, 1) at the first i with classes[i] == storage_class
mail_storage_class_unregister(classes, c) ==
    LET i == index_of(classes, c, 1)
    IN  IF i = 0 THEN classes
        ELSE SubSeq(classes, 1, i - 1) \o SubSeq(classes, i + 1, Len(classes))

RECURSIVE find_from(_, _, _)
find_from(classes, name, i) ==
    IF i > Len(classes) THEN NoClass
    ELSE IF strcasecmp_equal(ClassName[classes[i]], name) THEN classes[i]
    ELSE find_from(classes, name, i + 1)

mail_storage_find(classes, name) == find_from(classes, name, 1)

\* storage->v.create(data, user, flags, lock_method) of class c, where
\* `created` are the classes whose create succeeds in this call.
v_create(c, data, created) ==
    IF c \in created THEN Storage(c, data) ELSE NoStorage

mail_storage_create(classes, name, data, created) ==
    LET c == mail_storage_find(classes, name)
        found == << Made("find", c, Str(name), c # NoClass) >>
    IN  IF c # NoClass
        THEN [log |-> found \o << Made("create", c, data, c \in created) >>,
              result |-> v_create(c, data, created)]
        ELSE [log |-> found, result |-> NoStorage]

RECURSIVE create_default_from(_, _, _)
create_default_from(classes, created, i) ==
    IF i > Len(classes) THEN [log |-> <<>>, result |-> NoStorage]
    ELSE LET c == classes[i]
             call == Made("create", c, NULL, c \in created)
             storage_ == v_create(c, NULL, created)
         IN  IF storage_ # NoStorage
             THEN [log |-> <<call>>, result |-> storage_]
             ELSE LET rest == create_default_from(classes, created, i + 1)
                  IN  [log |-> <<call>> \o rest.log, result |-> rest.result]

mail_storage_create_default(classes, created) ==
    create_default_from(classes, created, 1)

\* `detects` are the classes whose v.autodetect(data, flags) is true.
RECURSIVE autodetect_from(_, _, _, _)
autodetect_from(classes, data, detects, i) ==
    IF i > Len(classes) THEN [log |-> <<>>, cls |-> NoClass]
    ELSE LET c == classes[i]
             call == Made("autodetect", c, data, c \in detects)
         IN  IF c \in detects
             THEN [log |-> <<call>>, cls |-> c]
             ELSE LET rest == autodetect_from(classes, data, detects, i + 1)
                  IN  [log |-> <<call>> \o rest.log, cls |-> rest.cls]

\* autodetect that probes every class before it returns the first match.
mail_storage_autodetect_probes_all(classes, data, detects) ==
    LET hits == {i \in 1..Len(classes) : classes[i] \in detects}
    IN  [log |-> [i \in 1..Len(classes) |->
                    Made("autodetect", classes[i], data, classes[i] \in detects)],
         cls |-> IF hits = {} THEN NoClass
                 ELSE classes[CHOOSE i \in hits : \A j \in hits : i <= j]]

\* autodetect that falls back to the first class when no backend matches.
mail_storage_autodetect_falls_back(classes, data, detects) ==
    LET r == autodetect_from(classes, data, detects, 1)
    IN  IF r.cls = NoClass /\ classes # <<>>
        THEN [log |-> r.log, cls |-> classes[1]]
        ELSE r

mail_storage_autodetect(classes, data, detects) ==
    autodetect_from(classes, data, detects, 1)

\* p = data; while (i_isalnum(*p)) p++;  as an index into data, Len + 1
\* being the terminating NUL.
RECURSIVE skip_alnum(_, _)
skip_alnum(d, p) ==
    IF p <= Len(d) /\ i_isalnum(d[p]) THEN skip_alnum(d, p + 1) ELSE p

\* The emptiness test without its *data == '\0' half.
data_is_empty_null_only(data) == data = NULL

\* data == NULL || *data == '\0'
data_is_empty(data) == data = NULL \/ data.s = <<>>

\* The backend data taken from p, colon included.
after_colon_keeps_colon(d, p) == SubSeq(d, p, Len(d))

\* p+1: the text after the colon at p
after_colon(d, p) == SubSeq(d, p + 1, Len(d))

mail_storage_create_with_data(classes, data, created, detects) ==
    IF data_is_empty(data)
    THEN mail_storage_create_default(classes, created)
    ELSE LET p == skip_alnum(data.s, 1)
         IN  IF p <= Len(data.s) /\ data.s[p] = ":"
             THEN mail_storage_create(classes, SubSeq(data.s, 1, p - 1),
                                      Str(after_colon(data.s, p)), created)
             ELSE LET det == mail_storage_autodetect(classes, data, detects)
                  IN  IF det.cls # NoClass
                      THEN [log |-> det.log \o
                                    << Made("create", det.cls, data, det.cls \in created) >>,
                            result |-> v_create(det.cls, data, created)]
                      ELSE [log |-> det.log, result |-> NoStorage]

VARIABLES
    storage,           \* storage[p]: [error, syntax_error] of p's mail_storage
    ioloop_time,       \* the ioloop's current time
    last_set,          \* last_set[p]: the latest error call on storage[p]
    hdr_uid_validity,  \* uid_validity of the mailbox's committed index header
    sync_holder,       \* the processes inside a sync of the mailbox's index
    pc,                \* pc[p]: where p is in dbox_mailbox_create
    ret,               \* ret[p]: what p's latest dbox_mailbox_create returned
    view,              \* view[p]: header uid_validity in p's sync view
    trans,             \* trans[p]: uid_validity written to p's transaction, 0 if none
    hist,              \* hist[p]: what p's current create attempt has done
    index_error,       \* index_error[p]: the error state of p's index is set
    storages,          \* the registry: the registered classes, in array order
    registered,        \* the registrations still in effect, oldest first
    shadows,           \* the classes registered under a name another one held
    last,              \* the latest create_* call: arguments, calls made, result
    opened             \* the dbox_mailbox_open call that has not returned yet

vars == <<storage, ioloop_time, last_set, hdr_uid_validity, sync_holder,
          pc, ret, view, trans, hist, index_error, storages, registered,
          shadows, last, opened>>

errVars == <<storage, ioloop_time, last_set>>
dboxVars == <<hdr_uid_validity, sync_holder, pc, ret, view, trans, hist,
              index_error>>
regVars == <<storages, registered, shadows, last>>
openVars == <<opened>>

NoDispatch == [op |-> "none", data |-> NULL, detects |-> {},
               log |-> <<>>, result |-> NoStorage]

NoCall == [op |-> "none", fmt |-> NULL, arg |-> "a", time |-> 0, events |-> <<>>]

NoHist == [start_uidv |-> 0, directory_only |-> FALSE, opens |-> 0,
           sync_rets |-> <<>>, acquired |-> 0, observed |-> -1, invoked |-> 0,
           commits |-> 0, rollbacks |-> 0]

\* No dbox_mailbox_open call is in progress.
NoOpen == [active |-> FALSE, proc |-> 0,
           st |-> [errno |-> "", st_atime |-> 0, st_ctime |-> 0], now |-> 0,
           before |-> [error |-> NULL, syntax_error |-> FALSE],
           unlink_ret |-> 0, open_ret |-> 0, cutoffs |-> <<>>, calls |-> <<>>,
           events |-> <<>>, ret |-> 0]

Init ==
    /\ storage = [p \in Procs |-> [error |-> NULL, syntax_error |-> FALSE]]
    /\ ioloop_time = 0
    /\ last_set = [p \in Procs |-> NoCall]
    /\ hdr_uid_validity = 0
    /\ sync_holder = {}
    /\ pc = [p \in Procs |-> "idle"]
    /\ ret = [p \in Procs |-> 0]
    /\ view = [p \in Procs |-> 0]
    /\ trans = [p \in Procs |-> 0]
    /\ hist = [p \in Procs |-> NoHist]
    /\ index_error = [p \in Procs |-> FALSE]
    /\ storages = <<>>
    /\ registered = <<>>
    /\ shadows = {}
    /\ last = NoDispatch
    /\ opened = NoOpen

\* ---- mail-storage.c: the error setters called on p's storage -------------

\* The call recorded for storage[p]; time is the ioloop_time the call read.
Called(op, fmt, arg, t, events) ==
    [op |-> op, fmt |-> fmt, arg |-> arg, time |-> t, events |-> events]

\* The argument list of a printf-style setter: a format and its argument,
\* or a NULL format.
FmtCalls == { <<NULL, "a">> } \cup { <<Str(f), a>> : f \in Fmts, a \in FmtArgs }

clear_error(p) ==
    /\ storage' = [storage EXCEPT ![p] = mail_storage_clear_error(@)]
    /\ last_set' = [last_set EXCEPT ![p] = Called("clear_error", NULL, "a", 0, <<>>)]
    /\ UNCHANGED <<ioloop_time, dboxVars, regVars, openVars>>

set_error(p) ==
    \E c \in FmtCalls :
        /\ storage' = [storage EXCEPT ![p] = mail_storage_set_error(@, c[1], c[2])]
        /\ last_set' = [last_set EXCEPT ![p] = Called("set_error", c[1], c[2], 0, <<>>)]
        /\ UNCHANGED <<ioloop_time, dboxVars, regVars, openVars>>

set_syntax_error(p) ==
    \E c \in FmtCalls :
        /\ storage' = [storage EXCEPT ![p] =
                         mail_storage_set_syntax_error(@, c[1], c[2])]
        /\ last_set' = [last_set EXCEPT ![p] =
                          Called("set_syntax_error", c[1], c[2], 0, <<>>)]
        /\ UNCHANGED <<ioloop_time, dboxVars, regVars, openVars>>

set_internal_error(p) ==
    /\ storage' = [storage EXCEPT ![p] =
                     mail_storage_set_internal_error(@, ioloop_time)]
    /\ last_set' = [last_set EXCEPT ![p] =
                      Called("set_internal_error", NULL, "a", ioloop_time, <<>>)]
    /\ UNCHANGED <<ioloop_time, dboxVars, regVars, openVars>>

set_critical(p) ==
    \E c \in FmtCalls :
        LET r == mail_storage_set_critical(storage[p], c[1], c[2], ioloop_time)
        IN  /\ storage' = [storage EXCEPT ![p] = r.st]
            /\ last_set' = [last_set EXCEPT ![p] =
                              Called("set_critical", c[1], c[2],
                                     IF c[1] = NULL THEN 0 ELSE ioloop_time,
                                     r.events)]
            /\ UNCHANGED <<ioloop_time, dboxVars, regVars, openVars>>

\* The ioloop moves its clock on.
Tick ==
    /\ ioloop_time < MaxTime
    /\ ioloop_time' = ioloop_time + 1
    /\ UNCHANGED <<storage, last_set, dboxVars, regVars, openVars>>

NextError ==
    \/ \E p \in Procs :
          \/ clear_error(p)
          \/ set_error(p)
          \/ set_syntax_error(p)
          \/ set_internal_error(p)
          \/ set_critical(p)
    \/ Tick

\* ---- mail-storage.c: calls on the registry ---------------------------------

\* The first occurrence of c taken out of a sequence.
RECURSIVE WithoutFirst(_, _)
WithoutFirst(seq, c) ==
    IF seq = <<>> THEN <<>>
    ELSE IF Head(seq) = c THEN Tail(seq)
    ELSE <<Head(seq)>> \o WithoutFirst(Tail(seq), c)

\* c is not registered, and a registered class has c's name, ignoring case.
RegisteredAsShadow(c) ==
    /\ \A i \in 1..Len(registered) : registered[i] # c
    /\ \E i \in 1..Len(registered) :
          strcasecmp_equal(ClassName[registered[i]], ClassName[c])

class_register(c) ==
    /\ last.op = "none"
    /\ Len(storages) < MaxRegs
    /\ storages' = mail_storage_class_register(storages, c)
    /\ registered' = Append(registered, c)
    /\ shadows' = IF RegisteredAsShadow(c) THEN shadows \cup {c} ELSE shadows
    /\ UNCHANGED <<last, errVars, dboxVars, openVars>>

class_unregister(c) ==
    /\ last.op = "none"
    /\ storages' = mail_storage_class_unregister(storages, c)
    /\ registered' = WithoutFirst(registered, c)
    /\ shadows' = IF \E i \in 1..Len(registered') : registered'[i] = c
                  THEN shadows ELSE shadows \ {c}
    /\ UNCHANGED <<last, errVars, dboxVars, openVars>>

create_default ==
    /\ last.op = "none"
    /\ \E created \in SUBSET Classes :
          LET r == mail_storage_create_default(storages, created)
          IN  last' = [op |-> "create_default", data |-> NULL, detects |-> {},
                       log |-> r.log, result |-> r.result]
    /\ UNCHANGED <<storages, registered, shadows, errVars, dboxVars, openVars>>

create_with_data ==
    /\ last.op = "none"
    /\ \E data \in AllData, created \in SUBSET Classes, detects \in SUBSET Classes :
          LET r == mail_storage_create_with_data(storages, data, created, detects)
          IN  last' = [op |-> "create_with_data", data |-> data, detects |-> detects,
                       log |-> r.log, result |-> r.result]
    /\ UNCHANGED <<storages, registered, shadows, errVars, dboxVars, openVars>>

\* The caller has taken the result of its create_* call.
create_returned ==
    /\ last.op # "none"
    /\ last' = NoDispatch
    /\ UNCHANGED <<storages, registered, shadows, errVars, dboxVars, openVars>>

NextRegistry ==
    \/ \E c \in Classes : class_register(c) \/ class_unregister(c)
    \/ create_default
    \/ create_with_data
    \/ create_returned

\* ---- the collaborators of dbox_mailbox_create ---------------------------------
\* The index engine and the generic index-backed routines, as dbox-storage.c
\* relies on them.

\* mail_index_sync_begin() returning 1: no other process is inside a sync of
\* this index; the caller now is, with a view of the committed header and an
\* empty transaction.
index_sync_begun(p) ==
    /\ sync_holder = {}
    /\ sync_holder' = {p}
    /\ view' = [view EXCEPT ![p] = hdr_uid_validity]
    /\ trans' = [trans EXCEPT ![p] = 0]

\* The sync of p is over: commit and rollback both end it.
index_sync_ended(p) ==
    /\ sync_holder' = sync_holder \ {p}
    /\ trans' = [trans EXCEPT ![p] = 0]

\* mail_index_sync_rollback(&sync_ctx): the transaction is dropped.
mail_index_sync_rollback(p) == index_sync_ended(p)

\* mail_index_sync_commit(&sync_ctx) returning r: on success the header
\* fields written to the transaction become the committed header.
mail_index_sync_commit(p, r) ==
    /\ index_sync_ended(p)
    /\ hdr_uid_validity' = IF r = 0 /\ trans[p] # 0 THEN trans[p] ELSE hdr_uid_validity

\* A failing index_storage_mailbox_open() or mailbox_create_indexes() has
\* set the storage's error before it returns.
backend_failed(st, t) == mail_storage_set_internal_error(st, t)

\* ---- dbox-storage.c: dbox_mailbox_create ---------------------------------

Return(p, r) ==
    /\ pc' = [pc EXCEPT ![p] = "returned"]
    /\ ret' = [ret EXCEPT ![p] = r]

\* A directory-only return that clears the storage's error on its way out.
create_directory_only_clears_error(p) ==
    /\ Return(p, 0)
    /\ storage' = [storage EXCEPT ![p] = mail_storage_clear_error(@)]

\* if (directory && (box->list->props & MAILBOX_LIST_PROP_NO_NOSELECT) == 0)
\*         return 0;
create_directory_only(p) ==
    /\ Return(p, 0)
    /\ UNCHANGED storage

\* The call, up to the directory-only return.
dbox_mailbox_create(p) ==
    /\ pc[p] \in {"idle", "returned"}
    /\ \E directory \in BOOLEAN, no_noselect \in BOOLEAN :
          /\ hist' = [hist EXCEPT ![p] =
                        [NoHist EXCEPT !.start_uidv = hdr_uid_validity,
                                       !.directory_only = directory /\ ~no_noselect]]
          /\ IF directory /\ ~no_noselect
             THEN create_directory_only(p)
             ELSE /\ pc' = [pc EXCEPT ![p] = "open"]
                  /\ UNCHANGED <<ret, storage>>
    /\ UNCHANGED <<hdr_uid_validity, sync_holder, view, trans, index_error>>
    /\ UNCHANGED <<ioloop_time, last_set, regVars, openVars>>

\* if (index_storage_mailbox_open(box, FALSE) < 0) return -1;
create_open(p) ==
    /\ pc[p] = "open"
    /\ \/ /\ pc' = [pc EXCEPT ![p] = "sync_begin"]
          /\ UNCHANGED <<ret, storage>>
       \/ /\ storage' = [storage EXCEPT ![p] = backend_failed(@, ioloop_time)]
          /\ Return(p, -1)
    /\ hist' = [hist EXCEPT ![p].opens = @ + 1]
    /\ UNCHANGED <<hdr_uid_validity, sync_holder, view, trans, index_error>>
    /\ UNCHANGED <<ioloop_time, last_set, regVars, openVars>>

\* ret = mail_index_sync_begin(box->index, &sync_ctx, &view, &trans, 0);
\* if (ret <= 0) { i_assert(ret != 0); mail_storage_set_internal_error();
\*                 mail_index_reset_error(); return -1; }
\*   ret 1: the sync is begun
\*   ret 0: the assertion aborts the process
\*   ret -1: internal error, return -1
create_sync_granted(p) ==
    /\ pc[p] = "sync_begin"
    /\ index_sync_begun(p)
    /\ hist' = [hist EXCEPT ![p].acquired = @ + 1,
                            ![p].sync_rets = Append(@, 1)]
    /\ pc' = [pc EXCEPT ![p] = "check"]
    /\ UNCHANGED <<ret, storage, index_error, hdr_uid_validity>>
    /\ UNCHANGED <<ioloop_time, last_set, regVars, openVars>>

\* ret 0: i_assert(ret != 0) aborts the process.
create_sync_asserted(p) ==
    /\ pc[p] = "sync_begin"
    /\ pc' = [pc EXCEPT ![p] = "aborted"]
    /\ hist' = [hist EXCEPT ![p].sync_rets = Append(@, 0)]
    /\ UNCHANGED <<ret, storage, sync_holder, view, trans, index_error>>
    /\ UNCHANGED <<hdr_uid_validity, ioloop_time, last_set, regVars, openVars>>

\* A failure path that leaves the index's error state set.
mail_index_reset_error_omitted(e) == e

\* mail_index_reset_error(box->index)
mail_index_reset_error(e) == FALSE

\* ret -1: the failed sync begin has set the index's error state.
create_sync_failed(p) ==
    /\ pc[p] = "sync_begin"
    /\ storage' = [storage EXCEPT ![p] =
                     mail_storage_set_internal_error(@, ioloop_time)]
    /\ index_error' = [index_error EXCEPT ![p] = mail_index_reset_error(TRUE)]
    /\ Return(p, -1)
    /\ hist' = [hist EXCEPT ![p].sync_rets = Append(@, -1)]
    /\ UNCHANGED <<sync_holder, view, trans>>
    /\ UNCHANGED <<hdr_uid_validity, ioloop_time, last_set, regVars, openVars>>

create_sync_begin(p) ==
    \/ create_sync_granted(p)
    \/ create_sync_asserted(p)
    \/ create_sync_failed(p)

\* A header check that takes every header for uninitialized.
header_uninitialized_always(uid_validity) == TRUE

\* mail_index_get_header(view)->uid_validity == 0
header_uninitialized(uid_validity) == uid_validity = 0

\* if (mail_index_get_header(view)->uid_validity == 0) { ... }
create_check_header(p) ==
    /\ pc[p] = "check"
    /\ hist' = [hist EXCEPT ![p].observed = view[p]]
    /\ pc' = [pc EXCEPT ![p] =
                IF header_uninitialized(view[p]) THEN "create_indexes" ELSE "commit"]
    /\ UNCHANGED <<hdr_uid_validity, sync_holder, ret, view, trans, index_error>>
    /\ UNCHANGED <<errVars, regVars, openVars>>

\* The failure path returning without the rollback.
create_indexes_failed_no_rollback(p) ==
    /\ UNCHANGED <<sync_holder, trans>>
    /\ hist' = [hist EXCEPT ![p].invoked = @ + 1]
    /\ Return(p, -1)

\* mailbox_create_indexes() < 0: mail_index_sync_rollback(&sync_ctx); return -1;
create_indexes_failed(p) ==
    /\ mail_index_sync_rollback(p)
    /\ hist' = [hist EXCEPT ![p].invoked = @ + 1, ![p].rollbacks = @ + 1]
    /\ Return(p, -1)

\* if (storage->v.mailbox_create_indexes(box, update, trans) < 0) { ... }
\* On success the backend has written a new, non-zero uid_validity to the
\* transaction.
create_indexes(p) ==
    /\ pc[p] = "create_indexes"
    /\ \/ /\ \E uidv \in 1..MaxUidValidity : trans' = [trans EXCEPT ![p] = uidv]
          /\ hist' = [hist EXCEPT ![p].invoked = @ + 1]
          /\ pc' = [pc EXCEPT ![p] = "commit"]
          /\ UNCHANGED <<ret, sync_holder, storage>>
       \/ /\ create_indexes_failed(p)
          /\ storage' = [storage EXCEPT ![p] = backend_failed(@, ioloop_time)]
    /\ UNCHANGED <<hdr_uid_validity, view, index_error>>
    /\ UNCHANGED <<ioloop_time, last_set, regVars, openVars>>

\* return mail_index_sync_commit(&sync_ctx);
create_commit(p) ==
    /\ pc[p] = "commit"
    /\ \E r \in {0, -1} :
          /\ mail_index_sync_commit(p, r)
          /\ Return(p, r)
    /\ hist' = [hist EXCEPT ![p].commits = @ + 1]
    /\ UNCHANGED <<view, index_error>>
    /\ UNCHANGED <<errVars, regVars, openVars>>

\* ---- dbox-storage.c: dbox_mailbox_open -------------------------------------

\* The temp-file grace period and the scan interval, in seconds, scaled.
DBOX_TMP_DELETE_SECS == 2
DBOX_TMP_SCAN_SECS == 1

\* The times a directory's st_atime and st_ctime are drawn from.
Stamps == (0 - MaxAge)..(MaxTime + 1)

\* errno after a failed stat(); "" stands for a stat() that returned 0.
Errnos == {"ENOENT", "EACCES", "ENOTDIR", "EIO"}

\* What stat(path, &st) can report.
StatResults ==
    [errno : {""}, st_atime : Stamps, st_ctime : Stamps]
    \cup [errno : Errnos, st_atime : {0}, st_ctime : {0}]

\* %m in a format: strerror(errno).
strerror(errno) ==
    CASE errno = "ENOENT" -> "No such file or directory"
      [] errno = "EACCES" -> "Permission denied"
      [] errno = "ENOTDIR" -> "Not a directory"
      [] errno = "EIO" -> "Input/output error"
      [] OTHER -> "Success"

BoxName == "box"
BoxPath == "/mail/box"

\* T_MAIL_ERR_MAILBOX_NOT_FOUND(box->name), as a format and its argument.
T_MAIL_ERR_MAILBOX_NOT_FOUND == Str(<<"Mailbox doesn't exist: ", "%s">>)

\* mail_error_eacces_msg("stat", box->path)
mail_error_eacces_msg(func, path) == func \o "(" \o path \o ") failed: Permission denied"

\* A reaper whose scan failure counts as a missing mailbox.
dbox_cleanup_if_exists_scan_failure_fails(st, now, unlink_ret) ==
    IF st.errno # ""
    THEN [exists |-> FALSE, cutoffs |-> <<>>]
    ELSE IF st.st_atime > st.st_ctime + DBOX_TMP_DELETE_SECS
    THEN [exists |-> TRUE, cutoffs |-> <<>>]
    ELSE IF st.st_atime < now - DBOX_TMP_SCAN_SECS
    THEN [exists |-> unlink_ret = 0, cutoffs |-> <<now - DBOX_TMP_DELETE_SECS>>]
    ELSE [exists |-> TRUE, cutoffs |-> <<>>]

\* A reaper that also skips when st_atime equals st_ctime + DBOX_TMP_DELETE_SECS.
dbox_cleanup_if_exists_skips_on_equal(st, now, unlink_ret) ==
    IF st.errno # ""
    THEN [exists |-> FALSE, cutoffs |-> <<>>]
    ELSE IF st.st_atime >= st.st_ctime + DBOX_TMP_DELETE_SECS
    THEN [exists |-> TRUE, cutoffs |-> <<>>]
    ELSE IF st.st_atime < now - DBOX_TMP_SCAN_SECS
    THEN [exists |-> TRUE, cutoffs |-> <<now - DBOX_TMP_DELETE_SECS>>]
    ELSE [exists |-> TRUE, cutoffs |-> <<>>]

\* dbox_cleanup_if_exists(list, path) after stat() reported st at ioloop_time
\* now: whether the path exists, and the cutoff of every unlink_old_files()
\* call it made, whose result unlink_ret is thrown away.
dbox_cleanup_if_exists(st, now, unlink_ret) ==
    IF st.errno # ""
    THEN [exists |-> FALSE, cutoffs |-> <<>>]
    ELSE IF st.st_atime > st.st_ctime + DBOX_TMP_DELETE_SECS
    THEN [exists |-> TRUE, cutoffs |-> <<>>]
    ELSE IF st.st_atime < now - DBOX_TMP_SCAN_SECS
    THEN [exists |-> TRUE, cutoffs |-> <<now - DBOX_TMP_DELETE_SECS>>]
    ELSE [exists |-> TRUE, cutoffs |-> <<>>]

\* An errno dispatch that reports every failed stat() as a missing mailbox.
open_stat_failed_always_notfound(st, errno, t) ==
    [st |-> mail_storage_set_error(st, T_MAIL_ERR_MAILBOX_NOT_FOUND, BoxName),
     events |-> <<>>]

\* The branches of dbox_mailbox_open on errno after the failed stat(): the
\* storage's error afterwards and what was logged.
open_stat_failed(st, errno, t) ==
    IF errno = "ENOENT"
    THEN [st |-> mail_storage_set_error(st, T_MAIL_ERR_MAILBOX_NOT_FOUND, BoxName),
          events |-> <<>>]
    ELSE IF errno = "EACCES"
    THEN mail_storage_set_critical(st, Str(<<"%s">>),
                                   mail_error_eacces_msg("stat", BoxPath), t)
    ELSE mail_storage_set_critical(
             st, Str(<<"stat(", "%s", ") failed: ", strerror(errno)>>), BoxPath, t)

\* int dbox_mailbox_open(struct mailbox *box), called by p at ioloop_time:
\*   if (dbox_cleanup_if_exists(box->list, box->path))
\*           return index_storage_mailbox_open(box, FALSE);
\*   else if (errno == ENOENT) ... else if (errno == EACCES) ... else ...
\* unlink_ret and open_ret are what unlink_old_files() and
\* index_storage_mailbox_open() return when they are called.
dbox_mailbox_open(p) ==
    /\ ~opened.active
    /\ \E st \in StatResults, unlink_ret \in {0, -1}, open_ret \in {0, -1} :
          LET cl == dbox_cleanup_if_exists(st, ioloop_time, unlink_ret)
              failed == open_stat_failed(storage[p], st.errno, ioloop_time)
              call == [NoOpen EXCEPT !.active = TRUE, !.proc = p, !.st = st,
                                     !.now = ioloop_time, !.before = storage[p],
                                     !.unlink_ret = unlink_ret,
                                     !.cutoffs = cl.cutoffs]
          IN  /\ cl.cutoffs = <<>> => unlink_ret = 0
              /\ ~cl.exists => open_ret = 0
              /\ IF cl.exists
                 THEN /\ storage' = [storage EXCEPT ![p] =
                                       IF open_ret < 0
                                       THEN backend_failed(@, ioloop_time) ELSE @]
                      /\ opened' = [call EXCEPT
                            !.calls = [i \in 1..Len(cl.cutoffs) |-> "unlink_old_files"]
                                      \o <<"index_storage_mailbox_open(box, FALSE)">>,
                            !.open_ret = open_ret,
                            !.ret = open_ret]
                 ELSE /\ storage' = [storage EXCEPT ![p] = failed.st]
                      /\ opened' = [call EXCEPT
                            !.calls = [i \in 1..Len(cl.cutoffs) |-> "unlink_old_files"],
                            !.events = failed.events,
                            !.ret = -1]
    /\ UNCHANGED <<ioloop_time, last_set, dboxVars, regVars>>

\* The caller has looked at the result.
open_returned ==
    /\ opened.active
    /\ opened' = NoOpen
    /\ UNCHANGED <<errVars, dboxVars, regVars>>

NextOpen ==
    \/ \E p \in Procs : dbox_mailbox_open(p)
    \/ open_returned
    \/ Tick

Next ==
    \E p \in Procs :
       \/ dbox_mailbox_create(p)
       \/ create_open(p)
       \/ create_sync_begin(p)
       \/ create_check_header(p)
       \/ create_indexes(p)
       \/ create_commit(p)

Spec == Init /\ [][Next]_vars

\* Every process makes one create attempt.
NextLive ==
    \E p \in Procs :
       \/ pc[p] = "idle" /\ dbox_mailbox_create(p)
       \/ create_open(p)
       \/ create_sync_begin(p)
       \/ create_check_header(p)
       \/ create_indexes(p)
       \/ create_commit(p)

\* A process inside dbox_mailbox_create keeps running, and the index engine
\* grants the sync to a process that asks for it again and again while the
\* index is free. Nothing obliges mail_index_sync_begin to fail.
Fairness(p) ==
    /\ WF_vars(create_open(p))
    /\ SF_vars(create_sync_granted(p))
    /\ WF_vars(create_check_header(p))
    /\ WF_vars(create_indexes(p))
    /\ WF_vars(create_commit(p))

SpecLive == Init /\ [][NextLive]_vars /\ \A p \in Procs : Fairness(p)

SpecError == Init /\ [][NextError]_vars

SpecRegistry == Init /\ [][NextRegistry]_vars

SpecOpen == Init /\ [][NextOpen]_vars

\* ---- dbox_mailbox_create: claims ------------------------------------------

\* p's current attempt has returned after having begun the sync, and the
\* committed header held uid_validity 0 when it was called.
RacedFromZero(p) ==
    /\ pc[p] = "returned"
    /\ hist[p].acquired = 1
    /\ hist[p].start_uidv = 0

\* p and q are the only processes that have called dbox_mailbox_create.
OnlyAttempts(p, q) == \A r \in Procs \ {p, q} : pc[r] = "idle"

ExactlyOneInitializes(p, q) ==
    \E a \in {p, q} : \E b \in {p, q} \ {a} :
        /\ hist[a].observed = 0 /\ hist[a].invoked = 1
        /\ hist[b].observed > 0 /\ hist[b].invoked = 0

C2_UidValidityAssignedOnce ==
    [][hdr_uid_validity # 0 =>
          /\ hdr_uid_validity' = hdr_uid_validity
          /\ \A p \in Procs : hist'[p].invoked <= hist[p].invoked]_vars

\* A later create has gone through its header check on an initialized
\* mailbox and is about to commit without having initialized anything.
C2_Witness ==
    \E p \in Procs :
        /\ hdr_uid_validity # 0
        /\ pc[p] = "commit"
        /\ hist[p].start_uidv # 0
        /\ hist[p].observed = hdr_uid_validity
        /\ hist[p].invoked = 0

\* C3: a returned create has ended every sync it began exactly once, by
\* commit or by rollback and never both, and no longer holds the sync; a
\* create still running has not ended a sync it did not begin.
C3_GuardReleasedExactlyOnce ==
    \A p \in Procs :
        /\ hist[p].acquired <= 1
        /\ hist[p].commits + hist[p].rollbacks <= hist[p].acquired
        /\ pc[p] = "returned" =>
              /\ hist[p].commits + hist[p].rollbacks = hist[p].acquired
              /\ p \notin sync_holder
        /\ p \in sync_holder => hist[p].commits + hist[p].rollbacks = 0

\* A create returned failure after a failed initialization, by rollback.
C3_Witness ==
    \E p \in Procs :
        /\ pc[p] = "returned" /\ ret[p] = -1
        /\ hist[p].acquired = 1 /\ hist[p].invoked = 1
        /\ hist[p].rollbacks = 1 /\ hist[p].commits = 0
        /\ p \notin sync_holder

\* ---- registry and backend selection: claims ----------------------------------

\* d is <name>:<rest> with the colon at k and <name> non-empty alphanumeric.
NamePrefixAt(d, k) ==
    /\ k \in 2..Len(d)
    /\ d[k] = ":"
    /\ \A i \in 1..(k - 1) : i_isalnum(d[i])

HasNamePrefix(d) == \E k \in 1..Len(d) : NamePrefixAt(d, k)

\* The positions of the registry whose class is called `name`, ignoring case.
Named(name) ==
    { i \in 1..Len(storages) : strcasecmp_equal(ClassName[storages[i]], name) }

LogHas(fn) == \E i \in 1..Len(last.log) : last.log[i].fn = fn

CreateCalls == { i \in 1..Len(last.log) : last.log[i].fn = "create" }

WithData == last.op = "create_with_data" /\ ~last.data.null /\ last.data.s # <<>>

\* C4: data <name>:<rest> naming a registered backend makes exactly one
\* create call, on that backend, with data <rest>, returns what it returns,
\* and probes no autodetect.
C4_NamePrefixDispatches ==
    WithData =>
        \A k \in 1..Len(last.data.s) :
            LET d == last.data.s
                name == SubSeq(d, 1, k - 1)
                rest == Str(SubSeq(d, k + 1, Len(d)))
            IN  (NamePrefixAt(d, k) /\ Named(name) # {}) =>
                    /\ ~LogHas("autodetect")
                    /\ Cardinality(CreateCalls) = 1
                    /\ \A i \in CreateCalls :
                          /\ strcasecmp_equal(ClassName[last.log[i].cls], name)
                          /\ last.log[i].data = rest
                          /\ last.result = IF last.log[i].ok
                                           THEN Storage(last.log[i].cls, rest)
                                           ELSE NoStorage

\* The named backend was created with a non-empty <rest> although its
\* autodetect is false for the data.
C4_Witness ==
    /\ WithData
    /\ \E k \in 1..Len(last.data.s) :
          /\ NamePrefixAt(last.data.s, k)
          /\ k < Len(last.data.s)
          /\ last.result # NoStorage
          /\ last.result.cls \notin last.detects
          /\ last.result.data = Str(SubSeq(last.data.s, k + 1, Len(last.data.s)))

\* The log of the autodetect branch: probes in registry order up to the
\* first match, then that backend's create with the data in full.
IsAutodetectRun ==
    LET n == Len(last.log)
        probes == { i \in 1..n : last.log[i].fn = "autodetect" }
    IN  /\ ~LogHas("find")
        /\ \A i \in probes : last.log[i].cls = storages[i] /\ last.log[i].data = last.data
        /\ \A i \in CreateCalls :
              /\ i = n /\ i > 1
              /\ last.log[i - 1].fn = "autodetect" /\ last.log[i - 1].ok
              /\ last.log[i].cls = last.log[i - 1].cls
              /\ last.log[i].data = last.data
        /\ \A i \in probes : last.log[i].ok => (i + 1) \in CreateCalls
        /\ CreateCalls = {} => probes = 1..Len(storages)

\* C5 as stated: the name branch is taken exactly for data matching
\* ^[A-Za-z0-9]+: and every other non-empty data goes through autodetect,
\* the match being created with the data in full.
C5_NameBranchIffNonEmptyPrefix ==
    WithData =>
        /\ LogHas("find") <=> HasNamePrefix(last.data.s)
        /\ ~HasNamePrefix(last.data.s) => IsAutodetectRun

\* C6: non-empty data without a name: prefix that no registered backend
\* autodetects yields NULL and no create call.
C6_NoMatchNotFound ==
    (/\ WithData
     /\ ~HasNamePrefix(last.data.s)
     /\ \A i \in 1..Len(storages) : storages[i] \notin last.detects)
        => (last.result = NoStorage /\ CreateCalls = {})

\* Every registered backend was probed and none matched.
C6_Witness ==
    /\ WithData
    /\ ~HasNamePrefix(last.data.s)
    /\ Len(storages) = 2
    /\ Len(last.log) = 2
    /\ \A i \in 1..2 : last.log[i].fn = "autodetect" /\ ~last.log[i].ok
    /\ last.result = NoStorage

\* The calls of create_default: create with NULL data on the registry's
\* classes in order, up to and including the first that succeeds.
IsDefaultRun ==
    LET n == Len(last.log)
    IN  /\ n <= Len(storages)
        /\ \A i \in 1..n :
              /\ last.log[i] = Made("create", storages[i], NULL, last.log[i].ok)
              /\ i < n => ~last.log[i].ok
        /\ IF n > 0 /\ last.log[n].ok
           THEN last.result = Storage(storages[n], NULL)
           ELSE n = Len(storages) /\ last.result = NoStorage

\* C7: create_with_data with empty or absent data does what create_default
\* does: creates with absent data in registration order, stops at the first
\* success, returns it, probes no autodetect.
C7_EmptyDataIsDefault ==
    (\/ last.op = "create_default"
     \/ last.op = "create_with_data" /\ (last.data.null \/ last.data.s = <<>>))
        => IsDefaultRun

\* create_with_data("") went past a failing backend to the second.
C7_Witness ==
    /\ last.op = "create_with_data"
    /\ last.data = Str(<<>>)
    /\ Len(last.log) = 2
    /\ ~last.log[1].ok
    /\ last.result = Storage(storages[2], NULL)

\* The names looked up: every string as long as a class name, or empty.
LookupNames ==
    UNION { [1..k -> Chars] : k \in {0} \cup { Len(ClassName[c]) : c \in Classes } }

\* The oldest registration still in effect whose class is called `name`.
OldestNamed(name) ==
    LET m == { i \in 1..Len(registered) :
                  strcasecmp_equal(ClassName[registered[i]], name) }
    IN  IF m = {} THEN NoClass
        ELSE registered[CHOOSE i \in m : \A j \in m : i <= j]

\* C8: find(name) is the earliest-registered class still registered whose
\* name equals name ignoring case, and not-found exactly when there is none.
C8_FindEarliestIgnoringCase ==
    \A name \in LookupNames :
        /\ mail_storage_find(storages, name) = OldestNamed(name)
        /\ mail_storage_find(storages, name) = NoClass <=> Named(name) = {}

\* Two classes named alike are registered, and the name of the later one
\* finds the earlier one.
C8_Witness ==
    /\ Len(storages) = 2
    /\ storages[1] # storages[2]
    /\ ClassName[storages[1]] # ClassName[storages[2]]
    /\ mail_storage_find(storages, ClassName[storages[2]]) = storages[1]

\* ---- ErrorState: claims ----------------------------------------------------

\* The latest error call on storage[p] was set_critical with a detail.
CriticalWithDetail(p) ==
    /\ last_set[p].op = "set_critical"
    /\ last_set[p].fmt # NULL

\* The detail the caller of the latest call on storage[p] passed, formatted.
DetailOf(p) == Str(i_strdup_vprintf(last_set[p].fmt.s, last_set[p].arg))

\* C9: after set_critical(detail) the client-visible error is the internal
\* error template with the timestamp of the call, not a syntax error and the
\* same for every detail given at the same time; the detail went to the log
\* verbatim, before the template was stored.
C9_CriticalHidesDetail ==
    \A p \in Procs :
        CriticalWithDetail(p) =>
            /\ storage[p].error = Str(CRITICAL_MSG_STAMP(last_set[p].time))
            /\ storage[p].error # DetailOf(p)
            /\ storage[p].syntax_error = FALSE
            /\ last_set[p].events =
                  << [ev |-> "i_error", msg |-> DetailOf(p)],
                     [ev |-> "store", msg |-> Str(CRITICAL_MSG_STAMP(last_set[p].time))] >>
            /\ \A q \in Procs :
                  (CriticalWithDetail(q) /\ last_set[q].time = last_set[p].time)
                      => storage[q] = storage[p]

\* Two storages were given different details at the same, later time.
C9_Witness ==
    \E p \in Procs : \E q \in Procs \ {p} :
        /\ CriticalWithDetail(p) /\ CriticalWithDetail(q)
        /\ DetailOf(p) # DetailOf(q)
        /\ last_set[p].time = last_set[q].time
        /\ last_set[p].time > 0
        /\ storage[p] = storage[q]

\* What the latest call on storage[p] makes of a storage that held `before`.
Replay(c, before) ==
    CASE c.op = "clear_error" -> mail_storage_clear_error(before)
      [] c.op = "set_error" -> mail_storage_set_error(before, c.fmt, c.arg)
      [] c.op = "set_syntax_error" -> mail_storage_set_syntax_error(before, c.fmt, c.arg)
      [] c.op = "set_internal_error" -> mail_storage_set_internal_error(before, c.time)
      [] c.op = "set_critical" -> mail_storage_set_critical(before, c.fmt, c.arg, c.time).st
      [] OTHER -> before

\* C10 as stated: the syntax flag is never set while no message is stored,
\* and the slot is what the latest call alone decides: what the call makes
\* of a cleared slot, with nothing carried over from an earlier setter.
C10_ErrorStateDeterminedByLastCall ==
    \A p \in Procs :
        /\ storage[p].syntax_error => storage[p].error # NULL
        /\ last_set[p].op # "none" =>
              storage[p] = Replay(last_set[p], [error |-> NULL, syntax_error |-> FALSE])

\* The slot get reads as "no error, not a syntax error".
NoError == [error |-> NULL, syntax_error |-> FALSE]

\* C11: from every reachable error slot clear_error yields no message and
\* syntax flag false, a second clear changes nothing, and a storage whose
\* latest call was clear_error holds exactly that.
C11_ClearIsIdempotent ==
    \A p \in Procs :
        LET once == mail_storage_clear_error(storage[p])
        IN  /\ once = NoError
            /\ mail_storage_clear_error(once) = once
            /\ last_set[p].op = "clear_error" => storage[p] = NoError

\* One storage was cleared while another holds a syntax error, from which
\* clear is applied as well.
C11_Witness ==
    \E p \in Procs : \E q \in Procs \ {p} :
        /\ last_set[p].op = "clear_error"
        /\ storage[p] = NoError
        /\ storage[q].syntax_error
        /\ storage[q].error # NULL

\* ---- dbox_mailbox_open: claims --------------------------------------------

\* The open in progress is one whose stat() failed.
StatFailed == opened.active /\ opened.st.errno # ""

\* The lines the open in progress sent to the log.
OpenLogged ==
    [i \in {j \in DOMAIN opened.events : opened.events[j].ev = "i_error"} |->
        opened.events[i].msg]

\* The client-visible slot after an internal error stored at time t.
InternalErrorAt(t) == [error |-> Str(CRITICAL_MSG_STAMP(t)), syntax_error |-> FALSE]

\* The three errno classes of the dispatch.
ErrnoClass(errno) == IF errno \in {"ENOENT", "EACCES"} THEN errno ELSE "other"

\* What the dispatch leaves in the slot for another errno, all else equal.
SlotFor(errno) == open_stat_failed(opened.before, errno, opened.now).st

\* The dispatch on errno, without any statement on what tells the classes apart.
OpenErrnoDispatch ==
    LET errno == opened.st.errno
        after == storage[opened.proc]
    IN  /\ opened.ret = -1
        /\ opened.calls = <<>>
        /\ errno = "ENOENT" =>
              /\ after = [error |-> Str(<<"Mailbox doesn't exist: ", BoxName>>),
                          syntax_error |-> FALSE]
              /\ opened.events = <<>>
        /\ errno = "EACCES" =>
              /\ after = InternalErrorAt(opened.now)
              /\ OpenLogged = << Str(<<"stat(/mail/box) failed: Permission denied">>) >>
        /\ errno \notin {"ENOENT", "EACCES"} =>
              /\ after = InternalErrorAt(opened.now)
              /\ OpenLogged = << Str(<<"stat(", BoxPath, ") failed: ", strerror(errno)>>) >>

\* C12 as stated: after a failed stat() the open returns failure without an
\* index open, dispatches on errno, and the three errno classes leave three
\* different (message, syntax flag) pairs in the slot.
C12_OpenErrnoDispatch_AsStated ==
    StatFailed =>
        /\ OpenErrnoDispatch
        /\ \A errno \in Errnos :
              ErrnoClass(errno) # ErrnoClass(opened.st.errno)
                  => SlotFor(errno) # storage[opened.proc]

\* C12: after a failed stat() the open returns failure without an index open;
\* ENOENT stores the plain mailbox-not-found error and logs nothing, EACCES
\* logs the permission-denied detail, any other errno logs a detail with the
\* errno text, and both store the internal-error template. The slot tells
\* ENOENT from the other two; EACCES and the other errnos leave the same slot
\* and differ in the logged line only.
C12_OpenErrnoDispatch ==
    StatFailed =>
        /\ OpenErrnoDispatch
        /\ \A errno \in Errnos :
              LET other == open_stat_failed(opened.before, errno, opened.now)
                  same == ErrnoClass(errno) = ErrnoClass(opened.st.errno)
                  notfound == "ENOENT" \in {errno, opened.st.errno}
              IN  /\ ~same /\ notfound => other.st # storage[opened.proc]
                  /\ ~same /\ ~notfound =>
                        /\ other.st = storage[opened.proc]
                        /\ other.events # opened.events

\* A stat() that failed with EACCES on a storage that held a plain error.
C12_Witness ==
    /\ StatFailed
    /\ opened.st.errno = "EACCES"
    /\ opened.before.error # NULL
    /\ opened.before # storage[opened.proc]
    /\ storage[opened.proc] = SlotFor("EIO")

\* C13: the reaper scans exactly when stat() succeeds and
\* st_atime <= st_ctime + DBOX_TMP_DELETE_SECS and
\* st_atime < now - DBOX_TMP_SCAN_SECS, one unlink_old_files() call with
\* cutoff now - DBOX_TMP_DELETE_SECS; st_atime = st_ctime + DBOX_TMP_DELETE_SECS
\* is not skipped and st_atime = now - DBOX_TMP_SCAN_SECS is not scanned.
C13_ReaperScansIff ==
    opened.active =>
        LET st == opened.st
            now == opened.now
            scans == Cardinality({i \in DOMAIN opened.calls :
                                     opened.calls[i] = "unlink_old_files"})
        IN  /\ scans \in {0, 1}
            /\ scans = 1 <=>
                  /\ st.errno = ""
                  /\ st.st_atime <= st.st_ctime + DBOX_TMP_DELETE_SECS
                  /\ st.st_atime < now - DBOX_TMP_SCAN_SECS
            /\ opened.cutoffs =
                  IF scans = 1 THEN <<now - DBOX_TMP_DELETE_SECS>> ELSE <<>>
            /\ st.errno = "" /\ st.st_atime = now - DBOX_TMP_SCAN_SECS => scans = 0

\* A scan at the boundary st_atime = st_ctime + DBOX_TMP_DELETE_SECS.
C13_Witness ==
    /\ opened.active
    /\ opened.st.errno = ""
    /\ opened.st.st_atime = opened.st.st_ctime + DBOX_TMP_DELETE_SECS
    /\ opened.calls[1] = "unlink_old_files"
    /\ opened.cutoffs = <<opened.now - DBOX_TMP_DELETE_SECS>>

\* C19: after a successful stat() the open runs the reaper decision, then
\* index_storage_mailbox_open(box, FALSE) exactly once, as its last call, and
\* returns what that returned; whether the reaper skipped, scanned or failed
\* to scan, the result is the index open's and the error slot is touched by
\* the index open alone.
C19_OpenDelegatesToIndexOpen ==
    opened.active /\ opened.st.errno = "" =>
        LET n == Len(opened.calls)
            index_opens == {i \in 1..n :
                               opened.calls[i] = "index_storage_mailbox_open(box, FALSE)"}
        IN  /\ index_opens = {n}
            /\ \A i \in 1..(n - 1) : opened.calls[i] = "unlink_old_files"
            /\ opened.ret = opened.open_ret
            /\ opened.events = <<>>
            /\ storage[opened.proc] =
                  IF opened.open_ret = 0 THEN opened.before
                  ELSE backend_failed(opened.before, opened.now)

\* A scan that failed before an open that succeeded, on a storage holding an
\* earlier error.
C19_Witness ==
    /\ opened.active
    /\ opened.st.errno = ""
    /\ opened.calls = <<"unlink_old_files", "index_storage_mailbox_open(box, FALSE)">>
    /\ opened.unlink_ret = -1
    /\ opened.ret = 0
    /\ opened.before.error # NULL
    /\ storage[opened.proc] = opened.before

\* ---- dbox_mailbox_open and dbox_mailbox_create: claims --------------------

\* C14: whenever dbox_mailbox_open or dbox_mailbox_create has returned
\* failure, the storage's error slot holds an error.
C14_FailureLeavesError ==
    /\ \A p \in Procs :
          pc[p] = "returned" /\ ret[p] = -1 => storage[p].error # NULL
    /\ opened.active /\ opened.ret = -1 => storage[opened.proc].error # NULL

\* p's current create attempt did nothing with the index beyond sync begin.
NoIndexWork(p) ==
    /\ hist[p].acquired = 0
    /\ hist[p].observed = -1
    /\ hist[p].invoked = 0
    /\ hist[p].commits = 0
    /\ hist[p].rollbacks = 0
    /\ trans[p] = 0
    /\ p \notin sync_holder

\* C15: when mail_index_sync_begin returns a negative result the create sets
\* the internal error, resets the index's error state and returns failure
\* without reading the header, initializing, committing or rolling back;
\* when it returns 0 the create never returns and has written nothing.
C15_SyncBeginFailure ==
    \A p \in Procs :
        /\ hist[p].sync_rets = <<-1>> =>
              /\ pc[p] = "returned"
              /\ ret[p] = -1
              /\ storage[p] = InternalErrorAt(ioloop_time)
              /\ ~index_error[p]
              /\ NoIndexWork(p)
        /\ hist[p].sync_rets = <<0>> =>
              /\ pc[p] = "aborted"
              /\ NoIndexWork(p)

\* One create has failed at sync begin, another was aborted by the assertion.
C15_Witness ==
    \E p \in Procs : \E q \in Procs \ {p} :
        /\ hist[p].sync_rets = <<-1>>
        /\ pc[p] = "returned"
        /\ hist[q].sync_rets = <<0>>
        /\ pc[q] = "aborted"

\* C16: a directory-only create on a list without NO_NOSELECT returns
\* success at once and changes nothing else: the index is not opened, no sync
\* is begun, the header is neither read nor written, and the storage's error
\* slot is left as it was.
C16_DirectoryOnlyChangesNothing ==
    [][\A p \in Procs :
          hist'[p].directory_only /\ (hist'[p] # hist[p] \/ pc'[p] # pc[p]) =>
              /\ pc'[p] = "returned"
              /\ ret'[p] = 0
              /\ hist'[p] = [NoHist EXCEPT !.start_uidv = hdr_uid_validity,
                                           !.directory_only = TRUE]
              /\ UNCHANGED <<storage, hdr_uid_validity, sync_holder, view,
                             trans, index_error>>]_vars

\* A directory-only create has returned on a storage that still holds the
\* error of an earlier call, while another process is inside its sync.
C16_Witness ==
    \E p \in Procs :
        /\ pc[p] = "returned"
        /\ hist[p].directory_only
        /\ ret[p] = 0
        /\ storage[p].error # NULL
        /\ sync_holder # {}
        /\ p \notin sync_holder

\* ---- mail-storage.c registry: claims on probing order and shadows ----------

\* Non-empty data whose leading alphanumerics are not followed by ':'.
InAutodetectBranch ==
    /\ WithData
    /\ ~\E k \in 1..Len(last.data.s) :
          /\ last.data.s[k] = ":"
          /\ \A i \in 1..(k - 1) : i_isalnum(last.data.s[i])

\* C17: in the autodetect branch the backends are probed in registration
\* order with the data in full, probing stops at the first whose autodetect
\* is true, create is called on that backend only, and a failing create is
\* the result, no later backend being probed or created.
C17_AutodetectFirstMatchOnly ==
    InAutodetectBranch =>
        LET n == Len(last.log)
            probes == {i \in 1..n : last.log[i].fn = "autodetect"}
            hits == {i \in probes : last.log[i].ok}
        IN  /\ \A i \in 1..n : last.log[i].fn \in {"autodetect", "create"}
            /\ probes = 1..Cardinality(probes)
            /\ \A i \in probes :
                  /\ i <= Len(registered)
                  /\ last.log[i].cls = registered[i]
                  /\ last.log[i].data = last.data
                  /\ last.log[i].ok <=> registered[i] \in last.detects
                  /\ last.log[i].ok => \A j \in probes : j <= i
                  /\ ~last.log[i].ok /\ i < Len(registered) => (i + 1) \in probes
            /\ registered # <<>> => probes # {}
            /\ CreateCalls = IF hits = {} THEN {} ELSE {n}
            /\ \A i \in CreateCalls :
                  /\ hits = {i - 1}
                  /\ last.log[i].cls = last.log[i - 1].cls
                  /\ last.log[i].data = last.data
                  /\ last.result = IF last.log[i].ok
                                   THEN Storage(last.log[i].cls, last.data)
                                   ELSE NoStorage
            /\ CreateCalls = {} => last.result = NoStorage

\* The first of two registered backends matched and its create failed: the
\* second, which would match too, was neither probed nor created.
C17_Witness ==
    /\ InAutodetectBranch
    /\ Len(registered) = 2
    /\ registered[1] # registered[2]
    /\ registered[2] \in last.detects
    /\ Len(last.log) = 2
    /\ last.log[1] = Made("autodetect", registered[1], last.data, TRUE)
    /\ last.log[2] = Made("create", registered[1], last.data, FALSE)
    /\ last.result = NoStorage

\* The registration of c still in effect the longest.
FirstRegistered(c) ==
    CHOOSE i \in 1..Len(registered) :
        registered[i] = c /\ \A j \in 1..(i - 1) : registered[j] # c

\* A class of c's name, ignoring case, registered before c is still registered.
StillShadowed(c) ==
    \E j \in 1..(FirstRegistered(c) - 1) :
        strcasecmp_equal(ClassName[registered[j]], ClassName[c])

\* C18 as stated: a descriptor registered while another of the same name
\* (ignoring case) was registered is never returned by find for as long as
\* it stays registered.
C18_ShadowNeverFound_AsStated ==
    \A c \in shadows : \A name \in LookupNames :
        mail_storage_find(storages, name) # c

\* C18: a descriptor registered while another of the same name (ignoring
\* case) was registered is not returned by find for as long as it and an
\* earlier-registered descriptor of that name both stay registered.
C18_ShadowNotFoundWhileShadowed ==
    \A c \in shadows :
        StillShadowed(c) =>
            \A name \in LookupNames : mail_storage_find(storages, name) # c

\* A shadow and the class it shadows are registered, and find of the
\* shadow's own name returns the other.
C18_Witness ==
    \E c \in shadows :
        /\ StillShadowed(c)
        /\ mail_storage_find(storages, ClassName[c]) \in Classes \ {c}

\* ---- dbox_mailbox_create: termination ---------------------------------------

\* p is inside dbox_mailbox_create.
Creating(p) == pc[p] \in {"open", "sync_begin", "check", "create_indexes", "commit"}

====
